---------------------------- MODULE Spec2Model ----------------------------
(***************************************************************************)
(* create-aether-cms: the version-targeted bootstrap pipeline.             *)
(*                                                                         *)
(* Sources: the entry point (src/unnamed/part_000: main, determineTarget)  *)
(* and src/bin/helpers.js (installProject, cloneRepository, the branch     *)
(* normalizer, validateTarget, updatePackageJson, setupGitRepository).     *)
(*                                                                         *)
(* Strings the code inspects (selector values, tag names, revision ids,    *)
(* the text `git ls-remote` prints) are sequences of characters, so that   *)
(* includes(), split(), match(), sort() and substring() are computed as    *)
(* JavaScript computes them.  The fixed literals "refs/tags/", "^{}", tab  *)
(* and newline are one token each.                                         *)
(***************************************************************************)
EXTENDS Integers, Sequences, FiniteSets, TLC

VARIABLES
    pc,              \* position of the run in main / installProject / helpers
    options,         \* the object parseArguments returned
    targetInfo,      \* what determineTarget returned
    lsRemote,        \* outcome of `git ls-remote --tags` (ok, text)
    validation,      \* what validateTarget returned and printed
    log,             \* external commands issued so far, with their outcome
    exitCode,        \* -1 while running, then the process exit status
    successReported, \* getSuccessMessage was printed
    destExists,      \* the destination directory exists on disk
    headBranch,      \* branch HEAD is attached to; <<>> when detached / no repo
    headRev,         \* revision id HEAD is at; <<>> when there is no repo
    branches,        \* local branches: name -> revision id
    remotes,         \* configured remotes: name -> URL
    normStart,       \* HEAD and main as the branch normalizer found them
    currentCommit,   \* the local `currentCommit` of the normalizer
    packageJson,     \* the parsed manifest object inside updatePackageJson
    installedVersion,\* the local `installedVersion` of updatePackageJson
    manifest,        \* package.json as last written by the pipeline
    repoUrl,         \* the answer to the repository URL prompt
    answer,          \* the answer to "Connect to your own Git repository?"
    pushNow,         \* the answer to "Push now?"
    pushedRev        \* revision pushed to the user's origin as main, or <<>>

vars == <<pc, options, targetInfo, lsRemote, validation, log, exitCode,
          successReported, destExists, headBranch, headRev, branches, remotes,
          normStart, currentCommit, packageJson, installedVersion, manifest,
          repoUrl, answer, pushNow, pushedRev>>

----------------------------------------------------------------------------
(* JavaScript values and string operations *)

\* null and undefined, kept apart from every string a caller can type
Null == <<"<null>">>
Undefined == <<"<undefined>">>

\* the string "latest"
Latest == <<"l", "a", "t", "e", "s", "t">>

\* JavaScript truthiness of a string-or-null value
Truthy(v) == v \notin {Null, Undefined, <<>>}

\* a || b
JsOr(a, b) == IF Truthy(a) THEN a ELSE b

\* characters in UTF-16 code unit order (the order Array.prototype.sort uses)
AsciiOrder ==
    <<"\t", "\n", ".", "0", "1", "2", "3", "4", "5", "6", "7", "8", "9",
      "^{}", "a", "b", "c", "d", "e", "f", "l", "refs/tags/", "s", "sha", "t", "v">>

CodeUnit(c) == CHOOSE i \in 1..Len(AsciiOrder) : AsciiOrder[i] = c

\* a < b as JavaScript compares strings
RECURSIVE StrLess(_, _)
StrLess(a, b) ==
    IF b = <<>> THEN FALSE
    ELSE IF a = <<>> THEN TRUE
    ELSE IF Head(a) = Head(b) THEN StrLess(Tail(a), Tail(b))
    ELSE CodeUnit(Head(a)) < CodeUnit(Head(b))

\* hay.includes(needle)
Includes(hay, needle) ==
    \E i \in 1..(Len(hay) - Len(needle) + 1) :
        SubSeq(hay, i, i + Len(needle) - 1) = needle

\* text.split(sep) for a one-token separator
RECURSIVE SplitFrom(_, _, _)
SplitFrom(text, sep, cur) ==
    IF text = <<>> THEN <<cur>>
    ELSE IF Head(text) = sep THEN <<cur>> \o SplitFrom(Tail(text), sep, <<>>)
    ELSE SplitFrom(Tail(text), sep, Append(cur, Head(text)))

Split(text, sep) == SplitFrom(text, sep, <<>>)

\* array.sort() with the default comparator
RECURSIVE InsertSorted(_, _)
InsertSorted(x, s) ==
    IF s = <<>> THEN <<x>>
    ELSE IF StrLess(Head(s), x) THEN <<Head(s)>> \o InsertSorted(x, Tail(s))
    ELSE <<x>> \o s

RECURSIVE JsSort(_)
JsSort(s) == IF s = <<>> THEN <<>> ELSE InsertSorted(Head(s), JsSort(Tail(s)))

\* array.reverse()
Reverse(s) == [i \in 1..Len(s) |-> s[Len(s) + 1 - i]]

\* array.slice(0, n) and string.substring(0, n)
Slice0(s, n) == SubSeq(s, 1, IF Len(s) < n THEN Len(s) ELSE n)

----------------------------------------------------------------------------
(* Target Resolver *)

\* a resolver that lets the tag win over the hash
determineTarget_TagFirst(opts) ==
    IF Truthy(opts.tag) THEN [targetType |-> "tag", target |-> opts.tag]
    ELSE IF Truthy(opts.hash) THEN [targetType |-> "hash", target |-> opts.hash]
    ELSE IF Truthy(opts.version) /\ opts.version # Latest
        THEN [targetType |-> "version", target |-> opts.version]
    ELSE [targetType |-> "latest", target |-> Latest]

determineTarget(opts) ==
    IF Truthy(opts.hash) THEN [targetType |-> "hash", target |-> opts.hash]
    ELSE IF Truthy(opts.tag) THEN [targetType |-> "tag", target |-> opts.tag]
    ELSE IF Truthy(opts.version) /\ opts.version # Latest
        THEN [targetType |-> "version", target |-> opts.version]
    ELSE [targetType |-> "latest", target |-> Latest]

----------------------------------------------------------------------------
(* Remote Existence Checker *)

\* how many suggestions validateTarget prints
MaxShown == 10

\* line.match(/refs\/tags\/(.+)$/)?.[1]
MatchTagName(line) ==
    LET hits == {i \in 1..(Len(line) - 1) : line[i] = "refs/tags/"}
    IN  IF hits = {} THEN Undefined
        ELSE LET first == CHOOSE i \in hits : \A j \in hits : i <= j
             IN  SubSeq(line, first + 1, Len(line))

HasRefsTags(line) == Includes(line, <<"refs/tags/">>)

NotDereferenced(tag) == ~Includes(tag, <<"^{}">>)

\* the `available` list of validateTarget
AvailableTags(text) ==
    LET lines == SelectSeq(Split(text, "\n"), HasRefsTags)
        names == [i \in 1..Len(lines) |-> MatchTagName(lines[i])]
    IN  Reverse(JsSort(SelectSeq(SelectSeq(names, Truthy), NotDereferenced)))

NoValidation == [valid |-> TRUE, queried |-> FALSE, notFound |-> FALSE,
                 shown |-> <<>>, more |-> 0]

\* a checker that asks the remote about every target, hashes included
validateTarget_AlwaysQueries(target, type, ls) ==
    IF ~ls.ok
        THEN [NoValidation EXCEPT !.queried = TRUE]
    ELSE IF Includes(ls.text, <<"refs/tags/">> \o target)
        THEN [NoValidation EXCEPT !.queried = TRUE]
    ELSE [valid |-> FALSE, queried |-> TRUE, notFound |-> TRUE,
          shown |-> Slice0(AvailableTags(ls.text), MaxShown), more |-> 0]

\* a checker that treats a failed query as "not found"
validateTarget_FailClosed(target, type, ls) ==
    IF type = "hash" \/ target = Latest THEN NoValidation
    ELSE IF ~ls.ok \/ ~Includes(ls.text, <<"refs/tags/">> \o target)
        THEN [valid |-> FALSE, queried |-> TRUE, notFound |-> TRUE,
              shown |-> <<>>, more |-> 0]
    ELSE [NoValidation EXCEPT !.queried = TRUE]

validateTarget(target, type, ls) ==
    IF type = "hash" \/ target = Latest THEN NoValidation
    ELSE IF ~ls.ok
        THEN [NoValidation EXCEPT !.queried = TRUE]
    ELSE IF Includes(ls.text, <<"refs/tags/">> \o target)
        THEN [NoValidation EXCEPT !.queried = TRUE]
    ELSE LET available == AvailableTags(ls.text)
         IN  [valid |-> FALSE, queried |-> TRUE, notFound |-> TRUE,
              shown |-> Slice0(available, MaxShown),
              more |-> IF Len(available) > MaxShown
                       THEN Len(available) - MaxShown ELSE 0]

----------------------------------------------------------------------------
(* The template repository as `git ls-remote --tags` and `git clone` see it *)

\* number of tags the template repository may carry
MaxTags == 11

Digits == <<"0", "1", "2", "3", "4", "5", "6", "7", "8", "9">>

\* tag names v0.0, v0.1, v0.2, v0.3, v1.0, ...
TagName(k) == <<"v", Digits[(k \div 4) + 1], ".", Digits[(k % 4) + 1]>>

TagPool == {TagName(k) : k \in 0..(MaxTags - 1)}

\* the tag that may be annotated (its ^{} line follows it)
AnnotatedPool == {TagName(4)}

RECURSIVE SetToSeq(_)
SetToSeq(S) ==
    IF S = {} THEN <<>>
    ELSE LET x == CHOOSE y \in S : TRUE IN <<x>> \o SetToSeq(S \ {x})

RECURSIVE Concat(_)
Concat(ss) == IF ss = <<>> THEN <<>> ELSE Head(ss) \o Concat(Tail(ss))

\* the lines of one tag: "<sha>\trefs/tags/<name>\n", then its peeled line
TagLines(name, annotated) ==
    <<"sha", "\t", "refs/tags/">> \o name \o <<"\n">>
    \o (IF name \in annotated
        THEN <<"sha", "\t", "refs/tags/">> \o name \o <<"^{}", "\n">>
        ELSE <<>>)

\* what `git ls-remote --tags` prints for a set of tags, in refname order
LsRemoteText(tags, annotated) ==
    LET sorted == JsSort(SetToSeq(tags))
    IN  Concat([i \in 1..Len(sorted) |-> TagLines(sorted[i], annotated)])

LsRemoteFailed == [ok |-> FALSE, text |-> <<>>]

LsRemoteOutcomes(pool, annotatable) ==
    {LsRemoteFailed} \cup
    {[ok |-> TRUE, text |-> LsRemoteText(tags, ann)] :
        tags \in SUBSET pool, ann \in SUBSET annotatable}

\* the tags of an ls-remote text, read independently of validateTarget:
\* every refname after "refs/tags/" that carries no ^{} marker
ListedTags(text) ==
    LET lines == Split(text, "\n")
    IN  {SubSeq(lines[i], 4, Len(lines[i])) :
            i \in {j \in 1..Len(lines) :
                     /\ Len(lines[j]) > 3
                     /\ lines[j][Len(lines[j])] # "^{}"}}

----------------------------------------------------------------------------
(* Values of one run *)

Main == <<"m", "a", "i", "n">>
Master == <<"m", "a", "s", "t", "e", "r">>

\* the repoUrl constant of cloneRepository and setupGitRepository
TemplateUrl == <<"https://github.com/LebCit/aether-cms.git">>
UserUrl == <<"https://github.com/me/my-site.git">>

ProjectName == <<"my-site">>

\* selector values a caller passes
HashVal == <<"a", "b", "c", "1", "2", "3", "4">>
TagVal == TagName(4)
VersionVal == TagName(5)

\* revision ids: the tip of the default branch, an older tagged commit, and
\* the commit `git commit` creates
RevTip == <<"f", "e", "d", "9", "8", "7", "6", "5", "4">>
RevOld == <<"a", "b", "c", "1", "2", "3", "4", "5", "6">>
RevInit == <<"0", "1", "2", "3", "4", "5", "6", "7", "8">>

Unknown == <<"u", "n", "k", "n", "o", "w", "n">>

\* length of the short revision id (substring(0, 7))
ShortLen == 7

\* what a caller may pass for each selector flag (parseArguments defaults:
\* version "latest", tag null, hash null)
HashInputs == {Null, HashVal}
TagInputs == {Null, TagVal, Latest}
VersionInputs == {Latest, VersionVal, Undefined}

\* branch the template's HEAD points at
DefaultBranches == {Main, Master}

\* tags the remote may list during a run
RunTagPool == {TagVal, VersionVal}

\* answers typed at the prompts
YesNoAnswers == {<<"y">>, <<"Y">>, <<"n">>, <<>>}
UrlAnswers == {<<>>, <<" ">>, UserUrl, <<" ">> \o UserUrl \o <<" ">>, TemplateUrl}

\* answer.toLowerCase()
ToLowerCase(s) ==
    [i \in 1..Len(s) |-> CASE s[i] = "Y" -> "y" [] s[i] = "N" -> "n" [] OTHER -> s[i]]

\* answer.trim()
RECURSIVE TrimStart(_)
TrimStart(s) ==
    IF s # <<>> /\ Head(s) = " " THEN TrimStart(Tail(s)) ELSE s

Trim(s) == Reverse(TrimStart(Reverse(TrimStart(s))))

\* one entry of the command log: the command and how it ended: "ok",
\* "refused" (git's own rules reject it in this repository state) or "failed"
\* (it could not run or complete: no network, no permission, old git, ...)
Cmd(c, r) == [cmd |-> c, result |-> r]

Ran(ok) == IF ok THEN "ok" ELSE "failed"
Outcome(env, allowed) == IF ~allowed THEN "refused" ELSE Ran(env)

Issued(c) == \E i \in 1..Len(log) : log[i].cmd = c
Succeeded(c) == \E i \in 1..Len(log) : log[i] = Cmd(c, "ok")
NotSucceeded(c) == \E i \in 1..Len(log) : log[i].cmd = c /\ log[i].result # "ok"

NoTarget == [targetType |-> "", target |-> <<>>]
NoNormStart == [entered |-> FALSE, branch |-> <<>>, rev |-> <<>>, main |-> <<>>]
NoPackage == [name |-> <<>>, version |-> <<>>, repository |-> <<>>]
NoMetadata ==
    [templateName |-> <<>>, templateVersion |-> <<>>, templateRepository |-> <<>>,
     installedVersion |-> <<>>, installedFrom |-> <<>>, installOptions |-> <<>>]
NoManifest == [writes |-> 0, name |-> <<>>, version |-> <<>>, aetherCMS |-> NoMetadata]

\* the manifest the template ships
TemplatePackage ==
    [name |-> <<"aether-cms">>, version |-> <<"1", ".", "0", ".", "0">>,
     repository |-> TemplateUrl]

\* revision of branch b, <<>> when there is no such branch
RevOf(b) == IF b \in DOMAIN branches THEN branches[b] ELSE <<>>

\* branches with b set to r
WithBranch(b, r) ==
    [n \in DOMAIN branches \cup {b} |-> IF n = b THEN r ELSE branches[n]]

\* remotes with name n set to url u / with n removed
WithRemote(n, u) ==
    [m \in DOMAIN remotes \cup {n} |-> IF m = n THEN u ELSE remotes[m]]
WithoutRemote(n) == [m \in DOMAIN remotes \ {n} |-> remotes[m]]

Init ==
    /\ pc = "main"
    /\ options \in [projectName : {ProjectName}, version : VersionInputs,
                    tag : TagInputs, hash : HashInputs]
    /\ targetInfo = NoTarget
    /\ lsRemote = LsRemoteFailed
    /\ validation = NoValidation
    /\ log = <<>>
    /\ exitCode = -1
    /\ successReported = FALSE
    /\ destExists \in BOOLEAN
    /\ headBranch = <<>>
    /\ headRev = <<>>
    /\ branches = <<>>
    /\ remotes = <<>>
    /\ normStart = NoNormStart
    /\ currentCommit = <<>>
    /\ packageJson = NoPackage
    /\ installedVersion = <<>>
    /\ manifest = NoManifest
    /\ repoUrl = <<>>
    /\ answer = <<>>
    /\ pushNow = <<>>
    /\ pushedRev = <<>>

\* process.exit(1)
Exit1 == pc' = "exited" /\ exitCode' = 1

repoVars == <<headBranch, headRev, branches, remotes, pushedRev>>
stampVars == <<packageJson, installedVersion, manifest>>
inputVars == <<options, targetInfo, lsRemote, validation>>
promptVars == <<repoUrl, answer, pushNow>>

----------------------------------------------------------------------------
(* main *)

\* const targetInfo = determineTarget(options); if (target !== "latest") ...
Main_DetermineTarget ==
    /\ pc = "main"
    /\ targetInfo' = determineTarget(options)
    /\ pc' = IF targetInfo'.target # Latest THEN "validate" ELSE "install"
    /\ UNCHANGED <<options, lsRemote, validation, log, exitCode, successReported,
                   destExists, repoVars, normStart, currentCommit, stampVars, promptVars>>

\* a main that ignores the answer of validateTarget
Main_ValidateTarget_NoGate ==
    /\ pc = "validate"
    /\ \E ls \in LsRemoteOutcomes(RunTagPool, {}) :
        LET v == validateTarget(targetInfo.target, targetInfo.targetType, ls)
        IN  /\ validation' = v
            /\ lsRemote' = IF v.queried THEN ls ELSE lsRemote
            /\ log' = IF v.queried
                      THEN Append(log, Cmd("git ls-remote --tags", Ran(ls.ok)))
                      ELSE log
            /\ pc' = "install"
            /\ exitCode' = exitCode
    /\ UNCHANGED <<options, targetInfo, successReported, destExists, repoVars,
                   normStart, currentCommit, stampVars, promptVars>>

\* const isValid = await validateTarget(...); if (!isValid) process.exit(1)
Main_ValidateTarget ==
    /\ pc = "validate"
    /\ \E ls \in LsRemoteOutcomes(RunTagPool, {}) :
        LET v == validateTarget(targetInfo.target, targetInfo.targetType, ls)
        IN  /\ validation' = v
            /\ lsRemote' = IF v.queried THEN ls ELSE lsRemote
            /\ log' = IF v.queried
                      THEN Append(log, Cmd("git ls-remote --tags", Ran(ls.ok)))
                      ELSE log
            /\ IF v.valid
               THEN pc' = "install" /\ exitCode' = exitCode
               ELSE Exit1
    /\ UNCHANGED <<options, targetInfo, successReported, destExists, repoVars,
                   normStart, currentCommit, stampVars, promptVars>>

----------------------------------------------------------------------------
(* installProject, cloneRepository *)

\* if (fs.existsSync(targetPath)) process.exit(1)
Install_CheckDestination ==
    /\ pc = "install"
    /\ IF destExists THEN Exit1 ELSE pc' = "clone" /\ exitCode' = exitCode
    /\ UNCHANGED <<inputVars, log, successReported, destExists, repoVars,
                   normStart, currentCommit, stampVars, promptVars>>

\* a clone that looks at the version first
CloneTarget_VersionFirst(opts) == JsOr(JsOr(opts.version, opts.tag), opts.hash)

\* const target = options.hash || options.tag || options.version
CloneTarget(opts) == JsOr(JsOr(opts.hash, opts.tag), opts.version)

\* if (target && target !== "latest")
NeedsCheckout(target) == Truthy(target) /\ target # Latest

\* git clone; a failure is caught, cloneRepository returns false and
\* installProject exits with status 1
Clone_Clone ==
    /\ pc = "clone"
    /\ \E ok \in BOOLEAN, d \in DefaultBranches :
        /\ log' = Append(log, Cmd("git clone", Ran(ok)))
        /\ IF ok
           THEN /\ destExists' = TRUE
                /\ headBranch' = d
                /\ headRev' = RevTip
                /\ branches' = (d :> RevTip)
                /\ remotes' = ("origin" :> TemplateUrl)
                /\ pc' = IF NeedsCheckout(CloneTarget(options))
                         THEN "checkout" ELSE "detect"
                /\ exitCode' = exitCode
           ELSE /\ Exit1
                /\ UNCHANGED <<destExists, headBranch, headRev, branches, remotes>>
    /\ UNCHANGED <<inputVars, successReported, pushedRev, normStart,
                   currentCommit, stampVars, promptVars>>

\* a checkout whose failure is only logged
Clone_Checkout_Tolerant ==
    /\ pc = "checkout"
    /\ \E outcome \in {"fail", "detached"}, r \in {RevTip, RevOld} :
        /\ log' = Append(log, Cmd("git checkout <target>", Ran(outcome # "fail")))
        /\ headBranch' = IF outcome = "fail" THEN headBranch ELSE <<>>
        /\ headRev' = IF outcome = "fail" THEN headRev ELSE r
        /\ pc' = "detect"
    /\ UNCHANGED <<inputVars, successReported, destExists, remotes, pushedRev,
                   normStart, currentCommit, stampVars, promptVars, branches, exitCode>>

\* git -c advice.detachedHead=false checkout <target>: the target names a tag or
\* a commit (HEAD detaches there), a branch of the template (a local branch of
\* that name is created and checked out), or nothing (the command fails)
Clone_Checkout ==
    /\ pc = "checkout"
    /\ \E outcome \in {"fail", "detached", "branch"}, r \in {RevTip, RevOld} :
        LET target == CloneTarget(options)
        IN  /\ log' = Append(log, Cmd("git checkout <target>", Ran(outcome # "fail")))
            /\ CASE outcome = "fail" ->
                      /\ Exit1
                      /\ UNCHANGED <<headBranch, headRev, branches>>
                 [] outcome = "detached" ->
                      /\ headBranch' = <<>>
                      /\ headRev' = r
                      /\ pc' = "detect"
                      /\ UNCHANGED <<branches, exitCode>>
                 [] outcome = "branch" ->
                      /\ headBranch' = target
                      /\ headRev' = IF target \in DOMAIN branches
                                    THEN branches[target] ELSE r
                      /\ branches' = IF target \in DOMAIN branches
                                     THEN branches ELSE WithBranch(target, r)
                      /\ pc' = "detect"
                      /\ exitCode' = exitCode
    /\ UNCHANGED <<inputVars, successReported, destExists, remotes, pushedRev,
                   normStart, currentCommit, stampVars, promptVars>>

----------------------------------------------------------------------------
(* Branch normalizer: ensureMainBranchFromCurrentState, createMainBranchFromCurrent *)

\* a normalizer that also rebuilds main when HEAD is already on it
DetectedState_NoMainCase(currentBranch) ==
    IF ~Truthy(currentBranch) THEN "DETACHED" ELSE "ON_OTHER"

\* if (!currentBranch) ... else if (currentBranch !== "main") ...
DetectedState(currentBranch) ==
    IF ~Truthy(currentBranch) THEN "DETACHED"
    ELSE IF currentBranch # Main THEN "ON_OTHER"
    ELSE "DONE"

\* a git whose branch creation resets a branch that exists (-C / -B / -f)
CanCreateMain_Overwrites == TRUE

\* git refuses to create a branch whose name is taken
CanCreateMain == Main \notin DOMAIN branches

normFrame == <<inputVars, successReported, destExists, remotes, pushedRev,
               exitCode, stampVars, promptVars>>

\* git symbolic-ref --short HEAD 2>/dev/null || echo ""
Normalizer_Detect ==
    /\ pc = "detect"
    /\ normStart' = [entered |-> TRUE, branch |-> headBranch, rev |-> headRev,
                     main |-> RevOf(Main)]
    /\ \E ok \in BOOLEAN :
        /\ log' = Append(log, Cmd("git symbolic-ref --short HEAD", Ran(ok)))
        /\ pc' = IF ~ok THEN "clone_return"
                 ELSE CASE DetectedState(headBranch) = "DETACHED" -> "strategy_switch"
                        [] DetectedState(headBranch) = "ON_OTHER" -> "other_create"
                        [] OTHER -> "clone_return"
    /\ UNCHANGED <<normFrame, headBranch, headRev, branches, currentCommit>>

\* git switch -c main / git checkout -b main: create main at HEAD and attach
CreateAndSwitch(cmd, onFailure) ==
    /\ \E env \in BOOLEAN :
        LET allowed == CanCreateMain
            ok == env /\ allowed
        IN  /\ log' = Append(log, Cmd(cmd, Outcome(env, allowed)))
            /\ IF ok
               THEN /\ branches' = WithBranch(Main, headRev)
                    /\ headBranch' = Main
                    /\ pc' = "clone_return"
               ELSE /\ pc' = onFailure
                    /\ UNCHANGED <<branches, headBranch>>
    /\ UNCHANGED <<normFrame, headRev, normStart, currentCommit>>

\* a rev-parse whose failure escapes the normalizer and ends the run
RevParseHead_Fatal(next) ==
    /\ \E ok \in BOOLEAN :
        /\ log' = Append(log, Cmd("git rev-parse HEAD", Ran(ok)))
        /\ currentCommit' = IF ok THEN headRev ELSE currentCommit
        /\ pc' = IF ok THEN next ELSE "exited"
    /\ UNCHANGED <<normFrame, headBranch, headRev, branches, normStart>>

\* const currentCommit = execSync("git rev-parse HEAD").trim(); a failure
\* throws to the catch of ensureMainBranchFromCurrentState
RevParseHead(next) ==
    /\ \E ok \in BOOLEAN :
        /\ log' = Append(log, Cmd("git rev-parse HEAD", Ran(ok)))
        /\ currentCommit' = IF ok THEN headRev ELSE currentCommit
        /\ pc' = IF ok THEN next ELSE "clone_return"
    /\ UNCHANGED <<normFrame, headBranch, headRev, branches, normStart>>

\* git checkout main
CheckoutMain ==
    /\ \E env \in BOOLEAN :
        LET allowed == Main \in DOMAIN branches
            ok == env /\ allowed
        IN  /\ log' = Append(log, Cmd("git checkout main", Outcome(env, allowed)))
            /\ headBranch' = IF ok THEN Main ELSE headBranch
            /\ headRev' = IF ok THEN branches[Main] ELSE headRev
            /\ pc' = "clone_return"
    /\ UNCHANGED <<normFrame, branches, normStart, currentCommit>>

\* a first strategy that falls through to the manual one
Strategy_SwitchCreate_SkipLegacy ==
    /\ pc = "strategy_switch"
    /\ CreateAndSwitch("git switch -c main", "strategy_revparse")

\* strategy 1: git switch -c main
Strategy_SwitchCreate ==
    /\ pc = "strategy_switch"
    /\ CreateAndSwitch("git switch -c main", "strategy_checkout_b")

\* strategy 2: git checkout -b main
Strategy_CheckoutB ==
    /\ pc = "strategy_checkout_b"
    /\ CreateAndSwitch("git checkout -b main", "strategy_revparse")

\* strategy 3: git rev-parse HEAD; git branch main <commit>; git checkout main
Strategy_Manual_RevParse ==
    /\ pc = "strategy_revparse"
    /\ RevParseHead("strategy_branch")

\* a manual strategy that creates main at the tip the clone fetched
Strategy_Manual_Branch_AtTip ==
    /\ pc = "strategy_branch"
    /\ \E env \in BOOLEAN :
        LET allowed == CanCreateMain
            ok == env /\ allowed
        IN  /\ log' = Append(log, Cmd("git branch main <commit>", Outcome(env, allowed)))
            /\ branches' = IF ok THEN WithBranch(Main, RevTip) ELSE branches
            /\ pc' = IF ok THEN "strategy_checkout" ELSE "clone_return"
    /\ UNCHANGED <<normFrame, headBranch, headRev, normStart, currentCommit>>

Strategy_Manual_Branch ==
    /\ pc = "strategy_branch"
    /\ \E env \in BOOLEAN :
        LET allowed == CanCreateMain
            ok == env /\ allowed
        IN  /\ log' = Append(log, Cmd("git branch main <commit>", Outcome(env, allowed)))
            /\ branches' = IF ok THEN WithBranch(Main, currentCommit) ELSE branches
            /\ pc' = IF ok THEN "strategy_checkout" ELSE "clone_return"
    /\ UNCHANGED <<normFrame, headBranch, headRev, normStart, currentCommit>>

Strategy_Manual_Checkout ==
    /\ pc = "strategy_checkout"
    /\ CheckoutMain

\* on another branch: git checkout -b main, else force main to HEAD
Other_CheckoutB ==
    /\ pc = "other_create"
    /\ CreateAndSwitch("git checkout -b main", "other_revparse")

Other_RevParse ==
    /\ pc = "other_revparse"
    /\ RevParseHead("other_force")

\* a fallback that leaves an existing main where it was
Other_BranchForce_KeepOld ==
    /\ pc = "other_force"
    /\ \E env \in BOOLEAN :
        LET allowed == headBranch # Main
            ok == env /\ allowed
        IN  /\ log' = Append(log, Cmd("git branch -f main <commit>", Outcome(env, allowed)))
            /\ branches' = IF ok /\ Main \notin DOMAIN branches
                           THEN WithBranch(Main, currentCommit) ELSE branches
            /\ pc' = IF ok THEN "other_checkout" ELSE "clone_return"
    /\ UNCHANGED <<normFrame, headBranch, headRev, normStart, currentCommit>>

\* git branch -f main <commit>: git refuses to move the checked-out branch
Other_BranchForce ==
    /\ pc = "other_force"
    /\ \E env \in BOOLEAN :
        LET allowed == headBranch # Main
            ok == env /\ allowed
        IN  /\ log' = Append(log, Cmd("git branch -f main <commit>", Outcome(env, allowed)))
            /\ branches' = IF ok THEN WithBranch(Main, currentCommit) ELSE branches
            /\ pc' = IF ok THEN "other_checkout" ELSE "clone_return"
    /\ UNCHANGED <<normFrame, headBranch, headRev, normStart, currentCommit>>

Other_CheckoutMain ==
    /\ pc = "other_checkout"
    /\ CheckoutMain

\* ensureMainBranchFromCurrentState has returned (normally or through its
\* catch); cloneRepository returns true and installProject goes on
Clone_Return ==
    /\ pc = "clone_return"
    /\ pc' = "env_file"
    /\ UNCHANGED <<inputVars, log, exitCode, successReported, destExists, repoVars,
                   normStart, currentCommit, stampVars, promptVars>>

----------------------------------------------------------------------------
(* createProjectFiles: scaffolding and the metadata stamper (updatePackageJson) *)

\* installProject({...options, ...targetInfo, question})
SpreadOptions(opts, ti) ==
    [projectName |-> opts.projectName, version |-> opts.version, tag |-> opts.tag,
     hash |-> opts.hash, targetType |-> ti.targetType, target |-> ti.target]

\* JSON.stringify leaves out the keys whose value is undefined
JsonObject(obj) == [k \in {j \in DOMAIN obj : obj[j] # Undefined} |-> obj[k]]

\* the else branch of updatePackageJson runs `git rev-parse HEAD`
NeedsRevParse(opts) ==
    ~Truthy(opts.hash) /\ ~Truthy(opts.tag)
    /\ ~(Truthy(opts.version) /\ opts.version # Latest)

\* a stamper that records the full revision id
InstalledVersionOf_FullRev(opts, revOk, rev) ==
    IF Truthy(opts.hash) THEN opts.hash
    ELSE IF Truthy(opts.tag) THEN opts.tag
    ELSE IF Truthy(opts.version) /\ opts.version # Latest THEN opts.version
    ELSE IF revOk THEN rev
    ELSE Unknown

\* a stamper that leaves installedVersion empty when rev-parse fails
InstalledVersionOf_NoFallback(opts, revOk, rev) ==
    IF Truthy(opts.hash) THEN opts.hash
    ELSE IF Truthy(opts.tag) THEN opts.tag
    ELSE IF Truthy(opts.version) /\ opts.version # Latest THEN opts.version
    ELSE IF revOk THEN Slice0(rev, ShortLen)
    ELSE <<>>

\* let installedVersion = "unknown"; try { ... } catch { warn }
InstalledVersionOf(opts, revOk, rev) ==
    IF Truthy(opts.hash) THEN opts.hash
    ELSE IF Truthy(opts.tag) THEN opts.tag
    ELSE IF Truthy(opts.version) /\ opts.version # Latest THEN opts.version
    ELSE IF revOk THEN Slice0(rev, ShortLen)
    ELSE Unknown

\* a stamper that stores the resolved target in every selector slot
RecordedOptions_Resolved(opts) ==
    [version |-> opts.target, tag |-> opts.target, hash |-> opts.target]

\* installOptions: { version, tag, hash }
RecordedOptions(opts) ==
    [version |-> opts.version, tag |-> opts.tag, hash |-> opts.hash]

\* a stamper that reads the template fields after overwriting them
OriginalTemplate_AfterOverwrite(pkg, iv, opts) ==
    [templateName |-> opts.projectName, templateVersion |-> <<"0", ".", "1", ".", "0">>,
     templateRepository |-> pkg.repository, installedVersion |-> iv,
     installedFrom |-> <<"create-aether-cms">>,
     installOptions |-> RecordedOptions(opts)]

\* const originalTemplate = { templateName: packageJson.name, ... }
OriginalTemplate(pkg, iv, opts) ==
    [templateName |-> pkg.name, templateVersion |-> pkg.version,
     templateRepository |-> pkg.repository, installedVersion |-> iv,
     installedFrom |-> <<"create-aether-cms">>,
     installOptions |-> RecordedOptions(opts)]

\* what fs.writeFileSync(packageJsonPath, JSON.stringify(packageJson)) leaves
StampedManifest(pkg, iv, opts) ==
    LET originalTemplate == OriginalTemplate(pkg, iv, opts)
    IN  [writes |-> manifest.writes + 1,
         name |-> opts.projectName,
         version |-> <<"0", ".", "1", ".", "0">>,
         aetherCMS |-> [originalTemplate EXCEPT
                           !.installOptions = JsonObject(originalTemplate.installOptions)]]

scaffoldFrame == <<inputVars, successReported, destExists, repoVars, normStart,
                   currentCommit, promptVars>>

\* a step that writes files with no try around it: an exception reaches the
\* catch of main, which calls process.exit(1)
ThrowingStep(next) ==
    /\ \E ok \in BOOLEAN :
        IF ok THEN pc' = next /\ exitCode' = exitCode ELSE Exit1
    /\ UNCHANGED <<scaffoldFrame, log, stampVars>>

\* a step whose failures are caught and logged
CaughtStep(next) ==
    /\ pc' = next
    /\ UNCHANGED <<scaffoldFrame, log, exitCode, stampVars>>

CreateEnvFile ==
    /\ pc = "env_file"
    /\ ThrowingStep("pkg_read")

\* if (fs.existsSync(packageJsonPath)) { JSON.parse(fs.readFileSync(...)) }:
\* nothing catches a read or parse error, it reaches the catch of main
UpdatePackageJson_Read ==
    /\ pc = "pkg_read"
    /\ \E found \in {"absent", "unreadable", "parsed"} :
        CASE found = "absent" ->
               /\ pc' = "pkg_lock"
               /\ UNCHANGED <<packageJson, exitCode, log>>
          [] found = "unreadable" ->
               /\ log' = Append(log, Cmd("read package.json", "failed"))
               /\ Exit1
               /\ UNCHANGED packageJson
          [] found = "parsed" ->
               /\ log' = Append(log, Cmd("read package.json", "ok"))
               /\ packageJson' = TemplatePackage
               /\ pc' = "pkg_version"
               /\ exitCode' = exitCode
    /\ UNCHANGED <<scaffoldFrame, installedVersion, manifest>>

UpdatePackageJson_Version ==
    /\ pc = "pkg_version"
    /\ LET opts == SpreadOptions(options, targetInfo)
       IN  \E revOk \in BOOLEAN :
            /\ installedVersion' = InstalledVersionOf(opts, revOk, headRev)
            /\ log' = IF NeedsRevParse(opts)
                      THEN Append(log, Cmd("git rev-parse HEAD (stamper)", Ran(revOk)))
                      ELSE log
    /\ pc' = "pkg_write"
    /\ UNCHANGED <<scaffoldFrame, exitCode, packageJson, manifest>>

\* build originalTemplate, overwrite name/version, fs.writeFileSync: nothing
\* catches a write error either
UpdatePackageJson_Write ==
    /\ pc = "pkg_write"
    /\ \E ok \in BOOLEAN :
        /\ log' = Append(log, Cmd("write package.json", Ran(ok)))
        /\ IF ok
           THEN /\ manifest' = StampedManifest(packageJson, installedVersion,
                                               SpreadOptions(options, targetInfo))
                /\ pc' = "pkg_lock"
                /\ exitCode' = exitCode
           ELSE /\ Exit1
                /\ UNCHANGED manifest
    /\ UNCHANGED <<scaffoldFrame, packageJson, installedVersion>>

\* a lock-file update that writes the manifest a second time
UpdatePackageLockJson_RestampsManifest ==
    /\ pc = "pkg_lock"
    /\ pc' = "gitattributes"
    /\ manifest' = [manifest EXCEPT !.writes = @ + 1]
    /\ UNCHANGED <<scaffoldFrame, log, exitCode, packageJson, installedVersion>>

UpdatePackageLockJson ==
    /\ pc = "pkg_lock"
    /\ CaughtStep("gitattributes")

CreateGitAttributes ==
    /\ pc = "gitattributes"
    /\ ThrowingStep("default_content")

CreateDefaultContent ==
    /\ pc = "default_content"
    /\ ThrowingStep("update_scripts")

\* createUpdateScripts / validateGeneratedScripts, inside try/catch
CreateUpdateScripts ==
    /\ pc = "update_scripts"
    /\ CaughtStep("npm_install")

\* execSync("npm install"): a failure throws to the catch of main
InstallDependencies ==
    /\ pc = "npm_install"
    /\ \E ok \in BOOLEAN :
        /\ log' = Append(log, Cmd("npm install", Ran(ok)))
        /\ IF ok THEN pc' = "setup_rename" /\ exitCode' = exitCode ELSE Exit1
    /\ UNCHANGED <<scaffoldFrame, stampVars>>

----------------------------------------------------------------------------
(* Remote topology configurator and initialization commit: setupGitRepository *)

setupFrame == <<inputVars, successReported, destExists, exitCode, normStart,
                currentCommit, stampVars>>

\* a rename that copies origin to upstream and leaves origin behind
RenamedRemotes_Copy(rs) ==
    [m \in DOMAIN rs \cup {"upstream"} |-> IF m = "upstream" THEN rs["origin"] ELSE rs[m]]

\* the remotes after `git remote rename origin upstream`
RenamedRemotes(rs) ==
    [m \in (DOMAIN rs \ {"origin"}) \cup {"upstream"} |->
        IF m = "upstream" THEN rs["origin"] ELSE rs[m]]

\* git remote rename origin upstream; on failure the manual approach is tried
Setup_Rename ==
    /\ pc = "setup_rename"
    /\ \E env \in BOOLEAN :
        LET allowed == "origin" \in DOMAIN remotes /\ "upstream" \notin DOMAIN remotes
            ok == env /\ allowed
        IN  /\ log' = Append(log, Cmd("git remote rename origin upstream", Outcome(env, allowed)))
            /\ remotes' = IF ok THEN RenamedRemotes(remotes) ELSE remotes
            /\ pc' = IF ok THEN "setup_merge_driver" ELSE "setup_remove"
    /\ UNCHANGED <<setupFrame, headBranch, headRev, branches, pushedRev, promptVars>>

\* a fallback that adds upstream even when origin could not be removed
Setup_Remove_AlwaysAdd ==
    /\ pc = "setup_remove"
    /\ \E env \in BOOLEAN :
        LET allowed == "origin" \in DOMAIN remotes
            ok == env /\ allowed
        IN  /\ log' = Append(log, Cmd("git remote remove origin", Outcome(env, allowed)))
            /\ remotes' = IF ok THEN WithoutRemote("origin") ELSE remotes
            /\ pc' = "setup_add_upstream"
    /\ UNCHANGED <<setupFrame, headBranch, headRev, branches, pushedRev, promptVars>>

\* git remote remove origin; a failure is caught by the inner catch (warning)
Setup_Remove ==
    /\ pc = "setup_remove"
    /\ \E env \in BOOLEAN :
        LET allowed == "origin" \in DOMAIN remotes
            ok == env /\ allowed
        IN  /\ log' = Append(log, Cmd("git remote remove origin", Outcome(env, allowed)))
            /\ remotes' = IF ok THEN WithoutRemote("origin") ELSE remotes
            /\ pc' = IF ok THEN "setup_add_upstream" ELSE "setup_merge_driver"
    /\ UNCHANGED <<setupFrame, headBranch, headRev, branches, pushedRev, promptVars>>

\* git remote add upstream https://github.com/LebCit/aether-cms.git
Setup_AddUpstream ==
    /\ pc = "setup_add_upstream"
    /\ \E env \in BOOLEAN :
        LET allowed == "upstream" \notin DOMAIN remotes
            ok == env /\ allowed
        IN  /\ log' = Append(log, Cmd("git remote add upstream", Outcome(env, allowed)))
            /\ remotes' = IF ok THEN WithRemote("upstream", TemplateUrl) ELSE remotes
            /\ pc' = "setup_merge_driver"
    /\ UNCHANGED <<setupFrame, headBranch, headRev, branches, pushedRev, promptVars>>

\* a git config call directly inside the outer try: a failure reaches the
\* outer catch ("Git setup failed") and setupGitRepository returns
ConfigStep(cmd, next) ==
    /\ \E ok \in BOOLEAN :
        /\ log' = Append(log, Cmd(cmd, Ran(ok)))
        /\ pc' = IF ok THEN next ELSE "report"
    /\ UNCHANGED <<setupFrame, repoVars, promptVars>>

Setup_ConfigMergeDriver ==
    /\ pc = "setup_merge_driver"
    /\ ConfigStep("git config merge.ours.driver true", "setup_pull_rebase")

\* a configurator that goes to the prompts without setting pull.rebase
Setup_ConfigPullRebase_Skipped ==
    /\ pc = "setup_pull_rebase"
    /\ pc' = "setup_ask_connect"
    /\ UNCHANGED <<setupFrame, log, repoVars, promptVars>>

Setup_ConfigPullRebase ==
    /\ pc = "setup_pull_rebase"
    /\ ConfigStep("git config pull.rebase false", "setup_ask_connect")

\* answer.toLowerCase() === "y"
SaysYes(typed) == ToLowerCase(typed) = <<"y">>

\* const answer = await question("Connect to your own Git repository? (y/n): ")
Setup_AskConnect ==
    /\ pc = "setup_ask_connect"
    /\ \E typed \in YesNoAnswers :
        /\ answer' = typed
        /\ pc' = IF SaysYes(typed) THEN "setup_ask_url" ELSE "setup_git_add"
    /\ UNCHANGED <<setupFrame, log, repoVars, repoUrl, pushNow>>

\* const repoUrl = await question("Enter your repository URL ..."); if (repoUrl.trim())
Setup_AskUrl ==
    /\ pc = "setup_ask_url"
    /\ \E typed \in UrlAnswers :
        /\ repoUrl' = typed
        /\ pc' = IF Truthy(Trim(typed)) THEN "setup_add_origin" ELSE "setup_git_add"
    /\ UNCHANGED <<setupFrame, log, repoVars, answer, pushNow>>

\* git remote add origin <repoUrl.trim()>; a failure is caught (warning)
Setup_AddOrigin ==
    /\ pc = "setup_add_origin"
    /\ \E env \in BOOLEAN :
        LET allowed == "origin" \notin DOMAIN remotes
            ok == env /\ allowed
        IN  /\ log' = Append(log, Cmd("git remote add origin", Outcome(env, allowed)))
            /\ remotes' = IF ok THEN WithRemote("origin", Trim(repoUrl)) ELSE remotes
            /\ pc' = IF ok THEN "setup_ask_push" ELSE "setup_git_add"
    /\ UNCHANGED <<setupFrame, headBranch, headRev, branches, pushedRev, promptVars>>

\* a prompt whose answer is not looked at: the push always follows
Setup_AskPush_AlwaysPush ==
    /\ pc = "setup_ask_push"
    /\ \E typed \in YesNoAnswers :
        /\ pushNow' = typed
        /\ pc' = "setup_push"
    /\ UNCHANGED <<setupFrame, log, repoVars, repoUrl, answer>>

\* const pushNow = await question("Push now? (y/n): ")
Setup_AskPush ==
    /\ pc = "setup_ask_push"
    /\ \E typed \in YesNoAnswers :
        /\ pushNow' = typed
        /\ pc' = IF SaysYes(typed) THEN "setup_push" ELSE "setup_git_add"
    /\ UNCHANGED <<setupFrame, log, repoVars, repoUrl, answer>>

\* a push that is tried again after it failed
Setup_Push_Retry ==
    /\ pc = "setup_push"
    /\ \E env \in BOOLEAN :
        LET allowed == Main \in DOMAIN branches /\ "origin" \in DOMAIN remotes
            ok == env /\ allowed
        IN  /\ log' = Append(log, Cmd("git push -u origin main", Outcome(env, allowed)))
            /\ pushedRev' = IF ok THEN branches[Main] ELSE pushedRev
            /\ pc' = IF ok THEN "setup_git_add" ELSE "setup_push"
    /\ UNCHANGED <<setupFrame, headBranch, headRev, branches, remotes, promptVars>>

\* git push -u origin main; a failure is caught and the retry command printed
Setup_Push ==
    /\ pc = "setup_push"
    /\ \E env \in BOOLEAN :
        LET allowed == Main \in DOMAIN branches /\ "origin" \in DOMAIN remotes
            ok == env /\ allowed
        IN  /\ log' = Append(log, Cmd("git push -u origin main", Outcome(env, allowed)))
            /\ pushedRev' = IF ok THEN branches[Main] ELSE pushedRev
    /\ pc' = "setup_git_add"
    /\ UNCHANGED <<setupFrame, headBranch, headRev, branches, remotes, promptVars>>

\* git add . ; a failure reaches the outer catch
Setup_GitAdd ==
    /\ pc = "setup_git_add"
    /\ \E ok \in BOOLEAN :
        /\ log' = Append(log, Cmd("git add .", Ran(ok)))
        /\ pc' = IF ok THEN "setup_git_commit" ELSE "report"
    /\ UNCHANGED <<setupFrame, repoVars, promptVars>>

\* a commit whose failure ends the run
Setup_GitCommit_Fatal ==
    /\ pc = "setup_git_commit"
    /\ \E ok \in BOOLEAN :
        /\ log' = Append(log, Cmd("git commit", Ran(ok)))
        /\ headRev' = IF ok THEN RevInit ELSE headRev
        /\ branches' = IF ok /\ headBranch \in DOMAIN branches
                       THEN WithBranch(headBranch, RevInit) ELSE branches
        /\ pc' = IF ok THEN "report" ELSE "exited"
    /\ UNCHANGED <<setupFrame, headBranch, remotes, pushedRev, promptVars>>

\* git commit -m "Initialize Aether CMS project": HEAD, and the branch it is
\* attached to, move to the new commit
Setup_GitCommit ==
    /\ pc = "setup_git_commit"
    /\ \E ok \in BOOLEAN :
        /\ log' = Append(log, Cmd("git commit", Ran(ok)))
        /\ headRev' = IF ok THEN RevInit ELSE headRev
        /\ branches' = IF ok /\ headBranch \in DOMAIN branches
                       THEN WithBranch(headBranch, RevInit) ELSE branches
    /\ pc' = "report"
    /\ UNCHANGED <<setupFrame, headBranch, remotes, pushedRev, promptVars>>

\* a pipeline that stamps the manifest last, after the commit
ReportSuccess_StampsLast ==
    /\ pc = "report"
    /\ successReported' = TRUE
    /\ exitCode' = 0
    /\ pc' = "done"
    /\ manifest' = [manifest EXCEPT !.writes = @ + 1]
    /\ log' = Append(log, Cmd("write package.json", "ok"))
    /\ UNCHANGED <<inputVars, destExists, repoVars, normStart, currentCommit,
                   packageJson, installedVersion, promptVars>>

\* console.log(getSuccessMessage(...)); "Installation completed successfully!"
ReportSuccess ==
    /\ pc = "report"
    /\ successReported' = TRUE
    /\ exitCode' = 0
    /\ pc' = "done"
    /\ UNCHANGED <<inputVars, log, destExists, repoVars, normStart, currentCommit,
                   stampVars, promptVars>>

----------------------------------------------------------------------------

Next ==
    \/ Main_DetermineTarget
    \/ Main_ValidateTarget
    \/ Install_CheckDestination
    \/ Clone_Clone
    \/ Clone_Checkout
    \/ Normalizer_Detect
    \/ Strategy_SwitchCreate
    \/ Strategy_CheckoutB
    \/ Strategy_Manual_RevParse
    \/ Strategy_Manual_Branch
    \/ Strategy_Manual_Checkout
    \/ Other_CheckoutB
    \/ Other_RevParse
    \/ Other_BranchForce
    \/ Other_CheckoutMain
    \/ Clone_Return
    \/ CreateEnvFile
    \/ UpdatePackageJson_Read
    \/ UpdatePackageJson_Version
    \/ UpdatePackageJson_Write
    \/ UpdatePackageLockJson
    \/ CreateGitAttributes
    \/ CreateDefaultContent
    \/ CreateUpdateScripts
    \/ InstallDependencies
    \/ Setup_Rename
    \/ Setup_Remove
    \/ Setup_AddUpstream
    \/ Setup_ConfigMergeDriver
    \/ Setup_ConfigPullRebase
    \/ Setup_AskConnect
    \/ Setup_AskUrl
    \/ Setup_AddOrigin
    \/ Setup_AskPush
    \/ Setup_Push
    \/ Setup_GitAdd
    \/ Setup_GitCommit
    \/ ReportSuccess

Spec == Init /\ [][Next]_vars

----------------------------------------------------------------------------
(* The resolver and the existence checker on their own inputs *)

\* every pipeline variable the two functions do not touch
Idle ==
    /\ log = <<>>
    /\ exitCode = -1
    /\ successReported = FALSE
    /\ destExists = FALSE
    /\ headBranch = <<>>
    /\ headRev = <<>>
    /\ branches = <<>>
    /\ remotes = <<>>
    /\ normStart = NoNormStart
    /\ currentCommit = <<>>
    /\ packageJson = NoPackage
    /\ installedVersion = <<>>
    /\ manifest = NoManifest
    /\ repoUrl = <<>>
    /\ answer = <<>>
    /\ pushNow = <<>>
    /\ pushedRev = <<>>

idleVars == <<log, exitCode, successReported, destExists, repoVars, normStart,
              currentCommit, stampVars, promptVars>>

\* what parseArguments can leave in a selector field: its default, a flag with
\* no value after it, an empty value, or a value
ResolverInputs == {Null, Undefined, <<>>, Latest, HashVal, TagVal}

ResolverInit ==
    /\ pc = "resolve"
    /\ options \in [projectName : {ProjectName}, version : ResolverInputs,
                    tag : ResolverInputs, hash : ResolverInputs]
    /\ targetInfo = NoTarget
    /\ lsRemote = LsRemoteFailed
    /\ validation = NoValidation
    /\ Idle

Resolver_Resolve ==
    /\ pc = "resolve"
    /\ targetInfo' = determineTarget(options)
    /\ pc' = "resolved"
    /\ UNCHANGED <<options, lsRemote, validation, idleVars>>

ResolverNext == Resolver_Resolve

SpecResolver == ResolverInit /\ [][ResolverNext]_vars

\* targets asked for: a full tag name, a proper prefix of tag names, the
\* annotated tag, a name the remote never lists, and "latest"
CheckerTargets == {TagName(5), <<"v", "1">>, TagName(4), TagName(39), Latest}

CheckerInit ==
    /\ pc = "check"
    /\ options = [projectName |-> ProjectName, version |-> Latest,
                  tag |-> Null, hash |-> Null]
    /\ targetInfo \in [targetType : {"tag", "version", "hash"}, target : CheckerTargets]
    /\ lsRemote \in LsRemoteOutcomes(TagPool, AnnotatedPool)
    /\ validation = NoValidation
    /\ Idle

Checker_Validate ==
    /\ pc = "check"
    /\ validation' = validateTarget(targetInfo.target, targetInfo.targetType, lsRemote)
    /\ pc' = "checked"
    /\ UNCHANGED <<options, targetInfo, lsRemote, idleVars>>

CheckerNext == Checker_Validate

SpecChecker == CheckerInit /\ [][CheckerNext]_vars

----------------------------------------------------------------------------
(* Properties *)

Terminated == pc \in {"done", "exited"}

NormalizerCommands ==
    {"git symbolic-ref --short HEAD", "git switch -c main", "git checkout -b main",
     "git rev-parse HEAD", "git branch main <commit>", "git branch -f main <commit>",
     "git checkout main"}

\* the commands that create or move a branch, or move HEAD to one
BranchCommands ==
    {"git switch -c main", "git checkout -b main", "git branch main <commit>",
     "git branch -f main <commit>", "git checkout main"}

\* no normalizer command failed for a reason outside git's own rules
NormalizerRanClean ==
    \A i \in 1..Len(log) :
        log[i].cmd \in NormalizerCommands => log[i].result # "failed"

\* C1: every run that reports success ends with HEAD on branch main.
\* (Violated: the normalizer only warns when it cannot create main, e.g. after
\* `--tag v1.0` on a template whose default branch is main.)
C1_SuccessMeansOnMain ==
    successReported => headBranch = Main

\* C2: started from a detached HEAD at revision R, the normalizer ends with
\* HEAD on main and main at R, whether or not a local main already exists.
\* Stated for the runs in which every normalizer command could run, so that
\* only git's own refusals are left.
C2_DetachedEndsOnMainAtR ==
    (/\ pc = "clone_return"
     /\ normStart.entered
     /\ normStart.branch = <<>>
     /\ NormalizerRanClean)
    => (headBranch = Main /\ RevOf(Main) = normStart.rev)

UpstreamConfigured ==
    "upstream" \in DOMAIN remotes /\ remotes["upstream"] = TemplateUrl

Given(v) == v # Null /\ v # Undefined /\ Len(v) > 0

\* C5: determineTarget returns the hash if it is non-empty, otherwise the tag
\* if it is non-empty, otherwise the version if it is non-empty and not
\* "latest", otherwise {latest, "latest"}.
C5_ResolverPriority ==
    pc = "resolved" =>
        /\ Given(options.hash) =>
             targetInfo = [targetType |-> "hash", target |-> options.hash]
        /\ (~Given(options.hash) /\ Given(options.tag)) =>
             targetInfo = [targetType |-> "tag", target |-> options.tag]
        /\ (/\ ~Given(options.hash) /\ ~Given(options.tag)
            /\ Given(options.version) /\ options.version # Latest) =>
             targetInfo = [targetType |-> "version", target |-> options.version]
        /\ (/\ ~Given(options.hash) /\ ~Given(options.tag)
            /\ (~Given(options.version) \/ options.version = Latest)) =>
             targetInfo = [targetType |-> "latest", target |-> Latest]

C5_Witness ==
    /\ pc = "resolved"
    /\ options.hash = HashVal
    /\ options.tag = TagVal
    /\ options.version = TagVal
    /\ targetInfo.targetType = "hash"

\* C6: validateTarget reports "exists" only if the value equals the name of a
\* tag the remote lists.
\* (Violated: includes() accepts any prefix of a listed tag name.)
C6_ExistsOnlyOnExactMatch ==
    (/\ pc = "checked"
     /\ validation.queried
     /\ lsRemote.ok
     /\ validation.valid)
    => targetInfo.target \in ListedTags(lsRemote.text)

\* the elements of S from the greatest to the least
RECURSIVE Descending(_)
Descending(S) ==
    IF S = {} THEN <<>>
    ELSE LET top == CHOOSE x \in S : \A y \in S \ {x} : StrLess(y, x)
         IN  <<top>> \o Descending(S \ {top})

\* C7: when the requested tag is not in the remote tag list, validateTarget
\* reports not-found and shows the listed tag names in descending order, at
\* most ten of them, and the number left out.
\* (Violated through C6: a prefix of a listed tag is reported as found.)
C7_NotListedGivesSuggestions ==
    (/\ pc = "checked"
     /\ validation.queried
     /\ lsRemote.ok
     /\ targetInfo.target \notin ListedTags(lsRemote.text))
    => LET all == Descending(ListedTags(lsRemote.text))
       IN  /\ ~validation.valid
           /\ validation.notFound
           /\ validation.shown = SubSeq(all, 1, IF Len(all) > 10 THEN 10 ELSE Len(all))
           /\ validation.more = IF Len(all) > 10 THEN Len(all) - 10 ELSE 0

\* C8: the stamped installedVersion is the hash if one was given, else the
\* tag if one was given, else the version if one was given and is not
\* "latest", else the first 7 characters of the revision the working copy
\* was acquired at (when that revision could be read).
C8_InstalledVersion ==
    manifest.writes > 0 =>
        LET iv == manifest.aetherCMS.installedVersion
        IN  /\ Given(options.hash) => iv = options.hash
            /\ (~Given(options.hash) /\ Given(options.tag)) => iv = options.tag
            /\ (/\ ~Given(options.hash) /\ ~Given(options.tag)
                /\ Given(options.version) /\ options.version # Latest) =>
                 iv = options.version
            /\ (/\ ~Given(options.hash) /\ ~Given(options.tag)
                /\ (~Given(options.version) \/ options.version = Latest)
                /\ Succeeded("git rev-parse HEAD (stamper)")) =>
                 iv = SubSeq(normStart.rev, 1, 7)

C8_Witness ==
    /\ manifest.writes > 0
    /\ options.hash = Null
    /\ options.tag = Null
    /\ options.version = Latest
    /\ manifest.aetherCMS.installedVersion = SubSeq(RevTip, 1, 7)

\* C9: installOptions holds the three selector fields as the caller supplied
\* them (a field left undefined is left out of the JSON), whichever of them
\* had priority; with only a tag given, installedVersion is that tag too.
C9_InstallOptionsAsSupplied ==
    manifest.writes > 0 =>
        LET io == manifest.aetherCMS.installOptions
        IN  /\ \A f \in {"version", "tag", "hash"} :
                 IF options[f] = Undefined
                 THEN f \notin DOMAIN io
                 ELSE f \in DOMAIN io /\ io[f] = options[f]
            /\ (options.tag = TagVal /\ options.hash = Null) =>
                 /\ io["tag"] = TagVal
                 /\ manifest.aetherCMS.installedVersion = TagVal

C9_Witness ==
    /\ manifest.writes > 0
    /\ options.tag = TagVal
    /\ options.hash = HashVal
    /\ options.version = Latest
    /\ manifest.aetherCMS.installOptions["tag"] = TagVal
    /\ manifest.aetherCMS.installedVersion = HashVal

StamperSteps ==
    {"read package.json", "git rev-parse HEAD (stamper)", "write package.json"}

ConfiguratorSteps ==
    {"git remote rename origin upstream", "git remote remove origin",
     "git remote add upstream", "git config merge.ours.driver true",
     "git config pull.rebase false", "git remote add origin",
     "git push -u origin main"}

\* C10: a failure of a stamper step or of a remote configurator step never
\* keeps the run from attempting the initialization commit.
\* (Violated: an unreadable manifest ends the run with status 1, and a failed
\* `git config` skips the rest of setupGitRepository.)
C10_FailuresStillReachCommit ==
    (/\ Terminated
     /\ \E c \in StamperSteps \cup ConfiguratorSteps : NotSucceeded(c))
    => Issued("git add .")


\* how often command c was issued, and where
Count(c) == Cardinality({i \in 1..Len(log) : log[i].cmd = c})
Positions(c) == {i \in 1..Len(log) : log[i].cmd = c}

\* every issue of command b comes after a failed or refused issue of a
FailedBefore(a, b) ==
    \A j \in Positions(b) : \E i \in Positions(a) : i < j /\ log[i].result # "ok"

\* every issue of command b comes after a successful issue of a
SucceededBefore(a, b) ==
    \A j \in Positions(b) : \E i \in Positions(a) : i < j /\ log[i].result = "ok"

\* nothing of the project exists: no clone was started, there is no
\* repository and no manifest was written
FsUntouched ==
    /\ ~Issued("git clone")
    /\ headRev = <<>>
    /\ branches = <<>>
    /\ remotes = <<>>
    /\ manifest = NoManifest

\* C11: the step in which validateTarget reports not-found, and the step of
\* installProject that finds the destination directory present, end the run
\* with status 1; the clone is not started, nothing is created and an absent
\* destination directory stays absent.
C11_AbortBeforeMutation ==
    [][ (validation'.notFound \/ (pc = "install" /\ destExists))
        => /\ pc' = "exited"
           /\ exitCode' = 1
           /\ destExists' = destExists
           /\ FsUntouched' ]_vars

C11_Witness ==
    /\ validation.notFound
    /\ pc = "exited"
    /\ ~destExists
    /\ Succeeded("git ls-remote --tags")

\* the commands of the stages that follow the acquisition
LaterStageCommands ==
    StamperSteps \cup ConfiguratorSteps \cup {"npm install", "git add .", "git commit"}

\* C12: when the clone fails, or the checkout fails after a successful clone,
\* the run has ended with status 1 and nothing of the later stages was run:
\* no branch normalization, no manifest rewrite, no dependency installation,
\* no remote configuration, no commit, no success report.
C12_FailedAcquisitionIsFatal ==
    (NotSucceeded("git clone") \/ NotSucceeded("git checkout <target>"))
    => /\ pc = "exited"
       /\ exitCode = 1
       /\ ~successReported
       /\ ~normStart.entered
       /\ manifest = NoManifest
       /\ \A c \in LaterStageCommands : ~Issued(c)

C12_Witness ==
    /\ Succeeded("git clone")
    /\ NotSucceeded("git checkout <target>")
    /\ pc = "exited"

\* C13: a run exits with status 1 only because the destination existed, the
\* target was reported not-found, the clone failed or the checkout failed.
\* (Violated: a failing `npm install`, or a failing write of .env,
\* package.json, .gitattributes or the content directories, reaches the catch
\* of main, which exits with status 1.)
C13_OnlyAcquisitionIsFatal ==
    exitCode = 1 =>
        \/ destExists /\ ~Issued("git clone")
        \/ validation.notFound
        \/ NotSucceeded("git clone")
        \/ NotSucceeded("git checkout <target>")

\* C14: when `git ls-remote` itself fails, validateTarget answers valid and
\* reports nothing as not-found, and the run goes on to installProject: it
\* exits only for a cause found there (destination present, or during and
\* after the clone).
C14_QueryFailureAssumesValid ==
    NotSucceeded("git ls-remote --tags")
    => /\ validation.valid
       /\ validation.queried
       /\ ~validation.notFound
       /\ pc \notin {"main", "validate"}
       /\ pc = "exited" => (destExists \/ Issued("git clone"))

C14_Witness ==
    /\ NotSucceeded("git ls-remote --tags")
    /\ Succeeded("git clone")
    /\ targetInfo.targetType = "tag"

\* C15: `git add .` and `git commit` are issued at most once each; nothing is
\* issued after `git commit`, and after `git add .` only `git commit`; every
\* remote, merge-setting and push command comes before them; and when either
\* fails the run still ends with the success report and status 0.
C15_SingleFinalCommit ==
    /\ Count("git add .") <= 1
    /\ Count("git commit") <= 1
    /\ \A i \in Positions("git commit") : i = Len(log)
    /\ \A i \in Positions("git add .") :
         /\ i >= Len(log) - 1
         /\ i < Len(log) => log[Len(log)].cmd = "git commit"
    /\ SucceededBefore("git add .", "git commit")
    /\ (NotSucceeded("git add .") \/ NotSucceeded("git commit"))
       => /\ pc \in {"report", "done"}
          /\ pc = "done" => (successReported /\ exitCode = 0)

C15_Witness ==
    /\ pc = "done"
    /\ successReported
    /\ exitCode = 0
    /\ NotSucceeded("git commit")
    /\ Succeeded("git push -u origin main")

\* C16: once the branch normalizer is entered, a checkout of the resolved
\* value has succeeded after the clone if the resolved kind is hash, tag or
\* version, and no checkout was issued if the kind is latest.
\* (Violated through C17: `--tag latest` resolves to kind tag, and
\* cloneRepository skips the checkout for the value "latest".)
C16_CheckoutIffNotLatest ==
    normStart.entered =>
        /\ targetInfo.targetType # "latest" =>
             /\ Succeeded("git checkout <target>")
             /\ SucceededBefore("git clone", "git checkout <target>")
             /\ SucceededBefore("git checkout <target>", "git symbolic-ref --short HEAD")
        /\ targetInfo.targetType = "latest" => ~Issued("git checkout <target>")

\* C17: determineTarget returns the value "latest" only with the kind latest.
\* (Violated: `--tag latest` and `--hash latest` are returned with the kind
\* tag and hash.)
C17_LatestValueOnlyForLatestKind ==
    pc = "resolved" =>
        (targetInfo.target = Latest => targetInfo.targetType = "latest")

\* C18: `git ls-remote` is issued only for a resolved target of kind tag or
\* version whose value is not "latest"; a target of kind hash, and the target
\* "latest", pass validation without the remote being asked.
C18_QueryOnlyForNamedTags ==
    /\ Issued("git ls-remote --tags") =>
         /\ targetInfo.targetType \in {"tag", "version"}
         /\ targetInfo.target # Latest
    /\ (/\ pc \notin {"main", "validate"}
        /\ (targetInfo.targetType = "hash" \/ targetInfo.target = Latest))
       => /\ ~Issued("git ls-remote --tags")
          /\ validation.valid
          /\ ~validation.queried
          /\ exitCode = 1 => (destExists \/ Issued("git clone"))

C18_Witness ==
    /\ targetInfo.targetType = "hash"
    /\ targetInfo.target = HashVal
    /\ Succeeded("git clone")
    /\ ~Issued("git ls-remote --tags")

\* the run found a detached HEAD when the normalizer looked
StartedDetached ==
    /\ normStart.entered
    /\ normStart.branch = <<>>
    /\ Succeeded("git symbolic-ref --short HEAD")

\* C19: from a detached HEAD the normalizer issues `git switch -c main`
\* first; `git checkout -b main` only after the switch failed; `git branch
\* main <rev>` only after both failed, and `git checkout main` only after that
\* branch command succeeded; nothing follows a strategy that succeeded, and
\* no command of a strategy is issued twice.
C19_StrategiesInOrder ==
    StartedDetached =>
        /\ \A c \in BranchCommands \cup {"git rev-parse HEAD"} : Count(c) <= 1
        /\ ~Issued("git branch -f main <commit>")
        /\ pc # "strategy_switch" => Issued("git switch -c main")
        /\ FailedBefore("git switch -c main", "git checkout -b main")
        /\ FailedBefore("git checkout -b main", "git rev-parse HEAD")
        /\ SucceededBefore("git rev-parse HEAD", "git branch main <commit>")
        /\ SucceededBefore("git branch main <commit>", "git checkout main")
        /\ Succeeded("git switch -c main") =>
             \A c \in BranchCommands \ {"git switch -c main"} : ~Issued(c)
        /\ Succeeded("git checkout -b main") =>
             \A c \in BranchCommands \ {"git switch -c main", "git checkout -b main"} :
                ~Issued(c)

C19_Witness ==
    /\ StartedDetached
    /\ pc = "clone_return"
    /\ NotSucceeded("git switch -c main")
    /\ NotSucceeded("git checkout -b main")
    /\ Succeeded("git branch main <commit>")
    /\ Succeeded("git checkout main")

\* the run found HEAD on a branch other than main when the normalizer looked
StartedOnOther ==
    /\ normStart.entered
    /\ normStart.branch \notin {<<>>, Main}
    /\ Succeeded("git symbolic-ref --short HEAD")

\* C20: from a branch other than main at revision R the normalizer issues
\* `git checkout -b main` first and `git branch -f main <rev>` only after that
\* failed; when the create-and-switch succeeded, or the forced move and the
\* switch both succeeded, HEAD is on main and main is at R, wherever main
\* pointed before.
C20_OtherBranchEndsOnMainAtR ==
    StartedOnOther =>
        /\ pc # "other_create" => Issued("git checkout -b main")
        /\ ~Issued("git switch -c main")
        /\ FailedBefore("git checkout -b main", "git rev-parse HEAD")
        /\ SucceededBefore("git rev-parse HEAD", "git branch -f main <commit>")
        /\ SucceededBefore("git branch -f main <commit>", "git checkout main")
        /\ (/\ pc = "clone_return"
            /\ \/ Succeeded("git checkout -b main")
               \/ /\ Succeeded("git branch -f main <commit>")
                  /\ Succeeded("git checkout main"))
           => /\ headBranch = Main
              /\ headRev = normStart.rev
              /\ RevOf(Main) = normStart.rev

C20_Witness ==
    /\ StartedOnOther
    /\ pc = "clone_return"
    /\ normStart.main \notin {<<>>, normStart.rev}
    /\ Succeeded("git branch -f main <commit>")
    /\ Succeeded("git checkout main")
    /\ RevOf(Main) = normStart.rev

\* positions of the run inside the branch normalizer
NormalizerPositions ==
    {"detect", "strategy_switch", "strategy_checkout_b", "strategy_revparse",
     "strategy_branch", "strategy_checkout", "other_create", "other_revparse",
     "other_force", "other_checkout"}

\* C21: no step of the branch normalizer ends the run: whatever fails, the
\* run stays in the normalizer or returns from it with the exit status
\* untouched, and cloneRepository then returns to installProject, which goes
\* on to the scaffolding with the branch, HEAD and branch table as they are.
C21_NormalizerNeverFatal ==
    [][ /\ pc \in NormalizerPositions =>
             /\ pc' \in NormalizerPositions \cup {"clone_return"}
             /\ exitCode' = exitCode
        /\ pc = "clone_return" =>
             /\ pc' = "env_file"
             /\ exitCode' = exitCode
             /\ UNCHANGED <<headBranch, headRev, branches>> ]_vars

C21_Witness ==
    /\ pc = "env_file"
    /\ StartedDetached
    /\ NotSucceeded("git switch -c main")
    /\ NotSucceeded("git checkout -b main")
    /\ NotSucceeded("git branch main <commit>")
    /\ headBranch = <<>>

\* C22: the rename comes before every other configurator command; the
\* removal of origin is issued exactly when the rename failed, and after it;
\* upstream is added exactly when that removal succeeded, and after it; and
\* when the rename and the fallback have both failed the next step is the
\* first merge setting.
C22_RenameThenFallback ==
    /\ \A c \in ConfiguratorSteps \ {"git remote rename origin upstream"} :
         SucceededBefore("git remote rename origin upstream", c)
         \/ FailedBefore("git remote rename origin upstream", c)
    /\ FailedBefore("git remote rename origin upstream", "git remote remove origin")
    /\ (NotSucceeded("git remote rename origin upstream") /\ pc # "setup_remove")
       => Issued("git remote remove origin")
    /\ SucceededBefore("git remote remove origin", "git remote add upstream")
    /\ (Succeeded("git remote remove origin") /\ pc # "setup_add_upstream")
       => Issued("git remote add upstream")
    /\ (/\ NotSucceeded("git remote rename origin upstream")
        /\ \/ NotSucceeded("git remote remove origin")
           \/ NotSucceeded("git remote add upstream"))
       => (pc = "setup_merge_driver" \/ Issued("git config merge.ours.driver true"))

C22_Witness ==
    /\ NotSucceeded("git remote rename origin upstream")
    /\ Succeeded("git remote remove origin")
    /\ NotSucceeded("git remote add upstream")
    /\ Succeeded("git config merge.ours.driver true")

\* a prompt is on the screen or has been answered
PromptReached ==
    \/ pc \in {"setup_ask_connect", "setup_ask_url", "setup_add_origin",
               "setup_ask_push", "setup_push", "setup_git_add", "setup_git_commit"}
    \/ Issued("git add .")

C24_OriginAndPushOnlyOnRequest ==
    /\ Issued("git remote add origin") =>
         /\ SaysYes(answer)
         /\ Truthy(Trim(repoUrl))
    /\ Succeeded("git remote add origin") => remotes["origin"] = Trim(repoUrl)
    /\ Issued("git push -u origin main") => SaysYes(pushNow)
    /\ SucceededBefore("git remote add origin", "git push -u origin main")
    /\ (NotSucceeded("git remote add origin") \/ NotSucceeded("git push -u origin main"))
       => (pc = "setup_git_add" \/ Issued("git add ."))

C24_Witness ==
    /\ SaysYes(answer)
    /\ SaysYes(pushNow)
    /\ NotSucceeded("git push -u origin main")
    /\ Succeeded("git commit")

\* C25: the manifest is written only after the remote configurator has
\* started, so that InstallMetadata comes after the configuration of upstream.
\* (Violated: installProject calls createProjectFiles, which stamps the
\* manifest, before setupGitRepository.)
C25_StampAfterRemoteSetup ==
    \A i \in Positions("write package.json") :
        \E j \in Positions("git remote rename origin upstream") : j < i

\* C26: every write of the manifest comes before `git commit`, and when the
\* commit is made of a working copy whose manifest could be read, that
\* manifest has been stamped.
C26_StampBeforeCommit ==
    /\ \A j \in Positions("git commit") :
         \A i \in Positions("write package.json") : i < j
    /\ (Succeeded("git commit") /\ Succeeded("read package.json"))
       => /\ Succeeded("write package.json")
          /\ manifest.writes = 1
          /\ manifest.aetherCMS # NoMetadata

C26_Witness ==
    /\ Succeeded("git commit")
    /\ Succeeded("write package.json")
    /\ manifest.name = ProjectName

\* C27 as stated: in every run that reports success the manifest has been
\* stamped exactly once.
C27_StampedExactlyOnce ==
    successReported => manifest.writes = 1

\* C27 as amended: in every run that reports success the manifest has been
\* stamped at most once: once when the working copy had a package.json, and
\* not at all when it had none.
C27_StampedOnceIfManifest ==
    successReported =>
        /\ manifest.writes <= 1
        /\ manifest.writes = 1 <=> Succeeded("read package.json")

C27_Witness ==
    /\ successReported
    /\ manifest.writes = 1
    /\ Succeeded("read package.json")
    /\ manifest.aetherCMS.installedFrom = <<"create-aether-cms">>

\* C28: the stamped templateName, templateVersion and templateRepository are
\* the name, version and repository the template's manifest declared, while
\* the manifest's own name and version are the project name and "0.1.0".
C28_TemplateFieldsCapturedFirst ==
    manifest.writes > 0 =>
        /\ manifest.aetherCMS.templateName = TemplatePackage.name
        /\ manifest.aetherCMS.templateVersion = TemplatePackage.version
        /\ manifest.aetherCMS.templateRepository = TemplatePackage.repository
        /\ manifest.name = options.projectName
        /\ manifest.version = <<"0", ".", "1", ".", "0">>
        /\ manifest.aetherCMS.templateName # manifest.name

C28_Witness ==
    /\ manifest.writes = 1
    /\ manifest.name = ProjectName
    /\ manifest.aetherCMS.templateName = <<"aether-cms">>

\* C29: no command appears twice in the command log of a run.
C29_NoCommandTwice ==
    \A i, j \in 1..Len(log) : log[i].cmd = log[j].cmd => i = j

C29_Witness ==
    /\ pc = "done"
    /\ NotSucceeded("git switch -c main")
    /\ NotSucceeded("git remote rename origin upstream")
    /\ NotSucceeded("git push -u origin main")
    /\ NotSucceeded("git commit")

\* C30: when `git rev-parse HEAD` fails in the stamper, installedVersion is
\* "unknown", the run goes on to the write of the manifest, and the manifest
\* written carries "unknown" together with the template fields, the install
\* options and the new name.
C30_UnknownWhenRevParseFails ==
    NotSucceeded("git rev-parse HEAD (stamper)") =>
        /\ installedVersion = Unknown
        /\ pc = "pkg_write" \/ Issued("write package.json")
        /\ Succeeded("write package.json") =>
             /\ manifest.aetherCMS.installedVersion = Unknown
             /\ manifest.aetherCMS.templateName = TemplatePackage.name
             /\ manifest.aetherCMS.installOptions = JsonObject(RecordedOptions(options))
             /\ manifest.name = options.projectName

C30_Witness ==
    /\ NotSucceeded("git rev-parse HEAD (stamper)")
    /\ successReported
    /\ manifest.aetherCMS.installedVersion = Unknown

\* C31: for every combination of hash, tag and version, cloneRepository
\* checks out exactly when the target determineTarget returned is not
\* "latest", and the value it checks out is that target.
C31_CloneAgreesWithResolver ==
    pc = "resolved" =>
        /\ NeedsCheckout(CloneTarget(options)) <=> targetInfo.target # Latest
        /\ NeedsCheckout(CloneTarget(options)) =>
             CloneTarget(options) = targetInfo.target

C31_Witness ==
    /\ pc = "resolved"
    /\ options.hash = <<>>
    /\ options.tag = TagVal
    /\ options.version = HashVal
    /\ NeedsCheckout(CloneTarget(options))
    /\ targetInfo.target = TagVal

\* the run is inside the branch normalizer or has just returned from it
InOrAfterNormalizer ==
    normStart.entered /\ pc \in NormalizerPositions \cup {"clone_return"}

\* C32: while the normalizer runs, and when it returns, HEAD is at the
\* revision the normalizer found it at, whatever the starting state and
\* whichever of its commands succeed or fail; a HEAD it attached to main finds
\* main at that revision.
C32_NormalizerKeepsRevision ==
    InOrAfterNormalizer =>
        /\ headRev = normStart.rev
        /\ (headBranch = Main /\ normStart.branch # Main) => RevOf(Main) = normStart.rev

C32_Witness ==
    /\ pc = "clone_return"
    /\ StartedDetached
    /\ normStart.rev = RevOld
    /\ Succeeded("git branch main <commit>")
    /\ Succeeded("git checkout main")
    /\ headBranch = Main

\* C33: started from a detached HEAD, the normalizer leaves a main that
\* already existed where it was and never issues `git branch -f`; the forced
\* move is issued only when the normalizer started on another branch.
C33_DetachedKeepsExistingMain ==
    /\ (InOrAfterNormalizer /\ StartedDetached /\ normStart.main # <<>>)
       => /\ RevOf(Main) = normStart.main
          /\ ~Issued("git branch -f main <commit>")
    /\ Issued("git branch -f main <commit>") => StartedOnOther

C33_Witness ==
    /\ pc = "clone_return"
    /\ StartedDetached
    /\ normStart.main = RevTip
    /\ normStart.rev = RevOld
    /\ Issued("git branch main <commit>")
    /\ RevOf(Main) = RevTip

\* C34: every push comes before `git commit`, and the revision pushed as
\* main is the revision the working copy was acquired at, never the
\* initialization commit.
\* (Violated through C2: after `--tag v1.0` on a template whose default
\* branch is main HEAD stays detached at the tag, and the push sends the
\* clone's main, which is at the template's tip.)
C34_PushSendsAcquiredRevision ==
    /\ \A i \in Positions("git push -u origin main") :
         \A j \in Positions("git commit") : i < j
    /\ Succeeded("git push -u origin main") =>
         /\ pushedRev # RevInit
         /\ pushedRev = normStart.rev

=============================================================================
